---- MODULE Spec2Model ----
(***************************************************************************)
(* Model of notebooks/process_plic_data.ipynb: discovery of iterations     *)
(* (get_iterations), assembly of one iteration's shard files               *)
(* (assemble_shape), the write of the artifact (process_shape) and the     *)
(* parallel loop of cell 3.                                                *)
(*                                                                         *)
(* File names are sequences of one-character strings, so that formatting   *)
(* ({:06d}), globbing, splitting and int() are computed as the code        *)
(* computes them.  A shard file is a sequence of lines; a line is the      *)
(* sequence of fields that sep=" " cuts it into (the empty sequence for a  *)
(* blank line).                                                            *)
(***************************************************************************)
EXTENDS Integers, Sequences, FiniteSets, TLC

VARIABLES src, target, pc, ret, iterations, tasks, prev, ncalls, call

vars == <<src, target, pc, ret, iterations, tasks, prev, ncalls, call>>

(***************************************************************************)
(* Characters and strings                                                  *)
(***************************************************************************)

\* the characters of the names in use, in ASCII order (what sorted() compares)
AsciiOrder ==
  <<".", "0", "1", "2", "3", "4", "5", "6", "7", "8", "9", "_",
    "a", "b", "c", "d", "e", "h", "i", "k", "l", "m", "n", "o", "p",
    "r", "s", "t", "x", "~">>

Ord(c) == CHOOSE i \in 1..Len(AsciiOrder) : AsciiOrder[i] = c

DigitChars == <<"0", "1", "2", "3", "4", "5", "6", "7", "8", "9">>

IsDigit(c) == \E i \in 1..10 : DigitChars[i] = c

DigitVal(c) == (CHOOSE i \in 1..10 : DigitChars[i] = c) - 1

RECURSIVE Digits(_)
Digits(n) ==
  IF n < 10 THEN <<DigitChars[n + 1]>>
  ELSE Digits(n \div 10) \o <<DigitChars[(n % 10) + 1]>>

RECURSIVE ZeroPad(_, _)
ZeroPad(s, w) == IF Len(s) >= w THEN s ELSE ZeroPad(<<"0">> \o s, w)

\* "{:0<w>d}".format(n) for n >= 0: at least w digits, padded with zeros
Fmt(n, w) == ZeroPad(Digits(n), w)

IterWidth == 6
ProcWidth == 3

HasPrefix(s, p) == Len(s) >= Len(p) /\ SubSeq(s, 1, Len(p)) = p

HasSuffix(s, p) ==
  Len(s) >= Len(p) /\ SubSeq(s, Len(s) - Len(p) + 1, Len(s)) = p

\* lexicographic order of two strings by code point (Python's str <)
RECURSIVE StrLess(_, _)
StrLess(a, b) ==
  IF a = <<>> THEN b # <<>>
  ELSE IF b = <<>> THEN FALSE
  ELSE IF Head(a) = Head(b) THEN StrLess(Tail(a), Tail(b))
  ELSE Ord(Head(a)) < Ord(Head(b))

\* s.split(sep): the pieces of s between the occurrences of the character sep
RECURSIVE Split(_, _)
Split(s, sep) ==
  IF \A i \in 1..Len(s) : s[i] # sep THEN <<s>>
  ELSE LET k == CHOOSE i \in 1..Len(s) :
                  s[i] = sep /\ \A j \in 1..(i - 1) : s[j] # sep
       IN  <<SubSeq(s, 1, k - 1)>> \o Split(SubSeq(s, k + 1, Len(s)), sep)

\* int(s) succeeds on an optional sign followed by one or more digits
IsIntLiteral(s) ==
  LET body == IF s # <<>> /\ Head(s) \in {"+", "-"} THEN Tail(s) ELSE s
  IN  body # <<>> /\ \A i \in 1..Len(body) : IsDigit(body[i])

RECURSIVE DigitsValue(_)
DigitsValue(s) ==
  IF s = <<>> THEN 0
  ELSE 10 * DigitsValue(SubSeq(s, 1, Len(s) - 1)) + DigitVal(s[Len(s)])

IntOf(s) ==
  IF Head(s) = "-" THEN 0 - DigitsValue(Tail(s))
  ELSE IF Head(s) = "+" THEN DigitsValue(Tail(s))
  ELSE DigitsValue(s)

(***************************************************************************)
(* File names                                                              *)
(***************************************************************************)

POINTS == <<"p", "o", "i", "n", "t", "s", "_">>
UN == <<"_", "n">>
TXT == <<".", "t", "x", "t">>

\* the name the simulation gives the shard of process p after it iterations
ShardName(it, p) == POINTS \o Fmt(it, IterWidth) \o UN \o Fmt(p, ProcWidth) \o TXT

\* line 92, without the directory part
BaseName(it) == POINTS \o Fmt(it, IterWidth) \o UN

\* the pattern of line 118, without the directory part and the leading "*"
MarkerSuffix == <<"_", "n", "0", "0", "0">> \o TXT

\* line 127
PLIC == <<"p", "l", "i", "c", "_">>
PKL == <<".", "p", "k", "l">>
FileName(it) == PLIC \o Fmt(it, IterWidth) \o PKL

(***************************************************************************)
(* The source directory: src.exists, and src.files, a function from the    *)
(* names of the files it holds to their lines.                             *)
(***************************************************************************)

NoFiles == [n \in {} |-> <<>>]

SrcNames == IF src.exists THEN DOMAIN src.files ELSE {}

\* glob.glob(path + "/*_n000.txt"): "*" matches any run of characters, also
\* the empty one, but no name that starts with a dot
GlobMarkers == {n \in SrcNames : HasSuffix(n, MarkerSuffix) /\ Head(n) # "."}

\* glob.glob(base_name + "*")
GlobShards(it) == {n \in SrcNames : HasPrefix(n, BaseName(it))}

\* a set of names as the ascending list sorted() makes of it
RECURSIVE SortedNames(_)
SortedNames(S) ==
  IF S = {} THEN <<>>
  ELSE LET m == CHOOSE x \in S : \A y \in S \ {x} : StrLess(x, y)
       IN  <<m>> \o SortedNames(S \ {m})

\* sorted() of a list of integers
RECURSIVE Insert(_, _)
Insert(x, s) ==
  IF s = <<>> THEN <<x>>
  ELSE IF x <= Head(s) THEN <<x>> \o s
  ELSE <<Head(s)>> \o Insert(x, Tail(s))

RECURSIVE SortedInts(_)
SortedInts(s) == IF s = <<>> THEN <<>> ELSE Insert(Head(s), SortedInts(Tail(s)))

\* path.split("/")[-1].split("_")[1] of a name the glob of line 118 matched
IterField(n) == Split(n, "_")[2]

(***************************************************************************)
(* Fields, cells, tables                                                   *)
(***************************************************************************)

\* a field of a line: a number, a missing value ("" or an NA marker) or text
NumField(v) == [kind |-> "num", val |-> v]
NAField == [kind |-> "na", val |-> 0]
TextField == [kind |-> "text", val |-> 0]

\* a cell of a table: a float32 value or NaN
Num(v) == [nan |-> FALSE, val |-> v]
NaN == [nan |-> TRUE, val |-> 0]

\* lines 95-98
Columns(shape_2D) == IF shape_2D THEN <<"px", "py">> ELSE <<"px", "py", "pz">>

IsBlank(line) == line = <<>>

Max(a, b) == IF a >= b THEN a ELSE b

\* what a call returned or raised
NoRet == [kind |-> "none", its |-> <<>>, columns |-> <<>>, rows |-> <<>>, exc |-> ""]
Raise(e) == [kind |-> "raise", its |-> <<>>, columns |-> <<>>, rows |-> <<>>, exc |-> e]
Table(cols, rows) ==
  [kind |-> "table", its |-> <<>>, columns |-> cols, rows |-> rows, exc |-> ""]
IterList(its) ==
  [kind |-> "iterations", its |-> its, columns |-> <<>>, rows |-> <<>>, exc |-> ""]

\* pd.read_csv(file, sep=" ", names=columns, engine='c', dtype=np.float32):
\* blank lines are skipped (skip_blank_lines defaults to True); the table is
\* as wide as the first data line, at least as wide as names; when it is
\* wider, the surplus leading fields become the index and the names go to
\* the last fields; a later line with more fields is a ParserError, a short
\* line is padded with NaN; a field that is no number under dtype float32
\* is a ValueError
ReadCsv(lines, columns) ==
  LET data == SelectSeq(lines, LAMBDA l : ~IsBlank(l))
      nc == Len(columns)
      width == IF data = <<>> THEN nc ELSE Max(Len(data[1]), nc)
      leading == width - nc
      cell(l, j) ==
        IF leading + j > Len(l) \/ l[leading + j].kind = "na" THEN NaN
        ELSE Num(l[leading + j].val)
  IN  IF \E i \in 1..Len(data) : Len(data[i]) > width
        THEN Raise("ParserError")
      ELSE IF \E i \in 1..Len(data) : \E j \in 1..Len(data[i]) :
                data[i][j].kind = "text"
        THEN Raise("ValueError")
      ELSE Table(columns,
                 [i \in 1..Len(data) |-> [j \in 1..nc |-> cell(data[i], j)]])

RECURSIVE Concat(_)
Concat(tables) ==
  IF tables = <<>> THEN <<>> ELSE Head(tables).rows \o Concat(Tail(tables))

\* a dropna that takes a zero for a missing value
DropFalsy(rows) ==
  SelectSeq(rows, LAMBDA r : \A j \in 1..Len(r) : ~r[j].nan /\ r[j].val # 0)

\* all_points.dropna(inplace=True): the rows with a NaN in any column go
DropNa(rows) == SelectSeq(rows, LAMBDA r : \A j \in 1..Len(r) : ~r[j].nan)

\* the order os.listdir may give the names in: here the descending one
ListdirOrder(S) ==
  LET s == SortedNames(S) IN [i \in 1..Len(s) |-> s[Len(s) + 1 - i]]

\* the glob of line 93 without the sorted() around it
UnsortedShardFiles(it) == ListdirOrder(GlobShards(it))

\* files = sorted(glob.glob(base_name + "*"))
ShardFiles(it) == SortedNames(GlobShards(it))

\* assemble_shape(path, iteration, shape_2D)
Assemble(it, shape_2D) ==
  LET files == ShardFiles(it)
      columns == Columns(shape_2D)
      points == [i \in 1..Len(files) |-> ReadCsv(src.files[files[i]], columns)]
      bad == {i \in 1..Len(files) : points[i].kind = "raise"}
  IN  IF bad # {} THEN points[CHOOSE i \in bad : \A k \in bad : i <= k]
      ELSE IF points = <<>> THEN Raise("ValueError")
      ELSE Table(columns, DropNa(Concat(points)))

\* get_iterations(path)
GetIterations ==
  LET file_paths == SortedNames(GlobMarkers)
  IN  IF \E i \in 1..Len(file_paths) : ~IsIntLiteral(IterField(file_paths[i]))
        THEN Raise("ValueError")
      ELSE IterList(SortedInts([i \in 1..Len(file_paths) |->
                                  IntOf(IterField(file_paths[i]))]))

(***************************************************************************)
(* The source directory is filled before the program runs (pc = "setup")   *)
(***************************************************************************)

NumLines ==
  LET RECURSIVE Sum(_)
      Sum(S) == IF S = {} THEN 0
                ELSE LET n == CHOOSE x \in S : TRUE
                     IN  Len(src.files[n]) + Sum(S \ {n})
  IN  Sum(DOMAIN src.files)

CreateSource ==
  /\ pc = "setup"
  /\ ~src.exists
  /\ src' = [src EXCEPT !.exists = TRUE]
  /\ UNCHANGED <<target, pc, ret, iterations, tasks, prev, ncalls, call>>

\* a file appears in the source directory, empty
CreateFile(n, maxFiles) ==
  /\ pc = "setup"
  /\ src.exists
  /\ n \notin DOMAIN src.files
  /\ Cardinality(DOMAIN src.files) < maxFiles
  /\ src' = [src EXCEPT !.files = [m \in DOMAIN src.files \cup {n} |->
                                     IF m = n THEN <<>> ELSE src.files[m]]]
  /\ UNCHANGED <<target, pc, ret, iterations, tasks, prev, ncalls, call>>

\* a process of the simulation writes one more line to its shard
WriteLine(n, line, maxLines) ==
  /\ pc = "setup"
  /\ n \in DOMAIN src.files
  /\ NumLines < maxLines
  /\ src' = [src EXCEPT !.files[n] = Append(@, line)]
  /\ UNCHANGED <<target, pc, ret, iterations, tasks, prev, ncalls, call>>

\* the arguments of the call under way: iteration and shape_2D
NoCall == [it |-> 0, shape_2D |-> FALSE]

NoPrev == [set |-> FALSE, it |-> 0, flag |-> FALSE, runs |-> 0,
           after |-> [n \in {} |-> <<>>]]

Init ==
  /\ src = [exists |-> FALSE, files |-> NoFiles]
  /\ target = [exists |-> FALSE, files |-> [n \in {} |-> <<>>]]
  /\ pc = "setup"
  /\ ret = NoRet
  /\ iterations = <<>>
  /\ tasks = <<>>
  /\ prev = NoPrev
  /\ ncalls = 0
  /\ call = NoCall

(***************************************************************************)
(* Discovery alone: any files, then one call of get_iterations             *)
(***************************************************************************)

MaxDiscFiles == 3

XPrefix == <<"x", "_">>

DiscNames ==
  { ShardName(0, 0), ShardName(10, 0), ShardName(10, 1), ShardName(20, 1),
    XPrefix \o Fmt(10, IterWidth) \o MarkerSuffix,
    POINTS \o <<"a", "b", "c">> \o MarkerSuffix,
    POINTS \o <<"1", "0">> \o MarkerSuffix,
    <<"n", "o", "t", "e", "s">> \o MarkerSuffix,
    <<".", "x", "_", "5">> \o MarkerSuffix,
    <<"r", "e", "a", "d", "m", "e">> \o TXT }

CallGetIterations ==
  /\ pc = "setup"
  /\ ret' = GetIterations
  /\ pc' = "called"
  /\ UNCHANGED <<src, target, iterations, tasks, prev, ncalls, call>>

\* the names the simulation writes: points_<6 digits>_n<3 digits>.txt
IterUniverse == {0, 10, 20}
ProcUniverse == {0, 1, 2, 10}

IsShardName(n) == \E it \in IterUniverse, p \in ProcUniverse : n = ShardName(it, p)

\* the iterations that have a shard of process 0 in the source directory
MarkedIterations == {it \in IterUniverse : ShardName(it, 0) \in SrcNames}

Elements(s) == {s[i] : i \in 1..Len(s)}

StrictlyAscending(s) == \A i \in 1..(Len(s) - 1) : s[i] < s[i + 1]

NextDisc ==
  \/ CreateSource
  \/ \E n \in DiscNames : CreateFile(n, MaxDiscFiles)
  \/ CallGetIterations

SpecDisc == Init /\ [][NextDisc]_vars

(***************************************************************************)
(* Assembly alone: shard files, then one call of assemble_shape            *)
(***************************************************************************)

MaxAsmFiles == 3
MaxAsmLines == 3

AsmNames == {ShardName(10, 2), ShardName(10, 10), ShardName(0, 0)}

AsmLines ==
  { <<>>,
    <<NumField(1), NumField(2)>>,
    <<NumField(0), NumField(3)>>,
    <<NumField(4), NumField(5), NumField(6)>>,
    <<NumField(7)>>,
    <<NumField(8), NAField>>,
    <<NumField(9), TextField>> }

IterArgs == {0, 10}

CallAssemble(it, shape_2D) ==
  /\ pc = "setup"
  /\ ret' = Assemble(it, shape_2D)
  /\ call' = [it |-> it, shape_2D |-> shape_2D]
  /\ pc' = "called"
  /\ UNCHANGED <<src, target, iterations, tasks, prev, ncalls>>

NextAsm ==
  \/ CreateSource
  \/ \E n \in AsmNames : CreateFile(n, MaxAsmFiles)
  \/ \E n \in AsmNames, l \in AsmLines : WriteLine(n, l, MaxAsmLines)
  \/ \E it \in IterArgs, f \in BOOLEAN : CallAssemble(it, f)

SpecAsm == Init /\ [][NextAsm]_vars

(***************************************************************************)
(* process_shape: a task assembles the table, opens the artifact and       *)
(* writes it.  An artifact is the sequence of frames of the pickle: the    *)
(* column names, one frame a row, and the STOP that ends every pickle.     *)
(***************************************************************************)

Frame(op, names, cells) == [op |-> op, names |-> names, cells |-> cells]

ZeroFrame == Frame("zero", <<>>, <<>>)

\* data.to_pickle(...): the bytes of the table
Pickle(t) ==
  <<Frame("cols", t.columns, <<>>)>>
    \o [i \in 1..Len(t.rows) |-> Frame("row", <<>>, t.rows[i])]
    \o <<Frame("stop", <<>>, <<>>)>>

\* pickle.load of a file: it reads up to the first STOP and fails on a file
\* that ends before it or holds anything but the frames of a table before it
Loadable(f) ==
  \E k \in 2..Len(f) :
    /\ f[k].op = "stop"
    /\ f[1].op = "cols"
    /\ \A j \in 2..(k - 1) : f[j].op = "row"

\* a write of one frame at offset off of a file; a gap is filled with zeros
WriteAt(f, off, fr) ==
  IF off < Len(f) THEN [f EXCEPT ![off + 1] = fr]
  ELSE f \o [i \in 1..(off - Len(f)) |-> ZeroFrame] \o <<fr>>

\* an open in append mode: the content stays, the writes go to its end
OpenAB(existing) == [content |-> existing, off |-> Len(existing)]

\* the open of to_pickle, mode "wb": the file is created or cut to nothing
OpenWB(existing) == [content |-> <<>>, off |-> 0]

NewTask(it, shape_2D) ==
  [it |-> it, flag |-> shape_2D, pc |-> "assemble", data |-> <<>>,
   off |-> 0, k |-> 0, exc |-> ""]

Terminal(t) == t.pc \in {"done", "raised", "crashed"}

Existing(n) == IF n \in DOMAIN target.files THEN target.files[n] ELSE <<>>

PutFile(n, content) ==
  [m \in DOMAIN target.files \cup {n} |-> IF m = n THEN content ELSE target.files[m]]

\* line 126: data = assemble_shape(source, iteration, shape_2D)
TaskAssemble(i) ==
  /\ tasks[i].pc = "assemble"
  /\ LET r == Assemble(tasks[i].it, tasks[i].flag)
     IN  tasks' = [tasks EXCEPT ![i] =
                     IF r.kind = "raise"
                       THEN [@ EXCEPT !.pc = "raised", !.exc = r.exc]
                       ELSE [@ EXCEPT !.pc = "open", !.data = Pickle(r)]]
  /\ UNCHANGED <<src, target, pc, ret, iterations, prev, ncalls, call>>

\* line 128, the open: it fails when the target directory is missing
TaskOpen(i) ==
  /\ tasks[i].pc = "open"
  /\ IF ~target.exists
       THEN /\ tasks' = [tasks EXCEPT ![i].pc = "raised",
                                      ![i].exc = "FileNotFoundError"]
            /\ UNCHANGED target
       ELSE LET h == OpenWB(Existing(FileName(tasks[i].it)))
            IN  /\ target' = [target EXCEPT
                                !.files = PutFile(FileName(tasks[i].it), h.content)]
                /\ tasks' = [tasks EXCEPT ![i].pc = "write", ![i].off = h.off]
  /\ UNCHANGED <<src, pc, ret, iterations, prev, ncalls, call>>

\* line 128, the write: the frames reach the file one after the other
TaskWrite(i) ==
  /\ tasks[i].pc = "write"
  /\ tasks[i].k < Len(tasks[i].data)
  /\ target' = [target EXCEPT !.files[FileName(tasks[i].it)] =
                  WriteAt(@, tasks[i].off, tasks[i].data[tasks[i].k + 1])]
  /\ tasks' = [tasks EXCEPT ![i].off = @ + 1, ![i].k = @ + 1]
  /\ UNCHANGED <<src, pc, ret, iterations, prev, ncalls, call>>

\* line 128, the close: process_shape returns.  prev keeps the target as the
\* first of a row of runs with the same arguments left it
TaskClose(i) ==
  /\ tasks[i].pc = "write"
  /\ tasks[i].k = Len(tasks[i].data)
  /\ tasks' = [tasks EXCEPT ![i].pc = "done"]
  /\ prev' = IF prev.set /\ prev.it = tasks[i].it /\ prev.flag = tasks[i].flag
               THEN [prev EXCEPT !.runs = @ + 1]
               ELSE [set |-> TRUE, it |-> tasks[i].it, flag |-> tasks[i].flag,
                     runs |-> 1, after |-> target.files]
  /\ UNCHANGED <<src, target, pc, ret, iterations, ncalls, call>>

\* the process of a task is killed before the task has finished
Crash(i) ==
  /\ tasks[i].pc \in {"assemble", "open", "write"}
  /\ tasks' = [tasks EXCEPT ![i].pc = "crashed"]
  /\ UNCHANGED <<src, target, pc, ret, iterations, prev, ncalls, call>>

(***************************************************************************)
(* Calls of process_shape one after the other                              *)
(***************************************************************************)

MaxSeqFiles == 2
MaxSeqLines == 2
MaxCalls == 2

SeqNames == {ShardName(10, 0), ShardName(0, 0)}

SeqLines == { <<NumField(1), NumField(2)>>, <<NumField(4), NumField(5), NumField(6)>> }

\* the target directory is there before the call, or it is not
MakeTarget ==
  /\ pc = "setup"
  /\ ~target.exists
  /\ target' = [target EXCEPT !.exists = TRUE]
  /\ UNCHANGED <<src, pc, ret, iterations, tasks, prev, ncalls, call>>

CallProcessShape(it, shape_2D) ==
  /\ pc \in {"setup", "run"}
  /\ \A i \in 1..Len(tasks) : Terminal(tasks[i])
  /\ ncalls < MaxCalls
  /\ tasks' = <<NewTask(it, shape_2D)>>
  /\ call' = [it |-> it, shape_2D |-> shape_2D]
  /\ prev' = IF prev.set /\ (prev.it # it \/ prev.flag # shape_2D) THEN NoPrev ELSE prev
  /\ ncalls' = ncalls + 1
  /\ pc' = "run"
  /\ UNCHANGED <<src, target, ret, iterations>>

NextSeq ==
  \/ CreateSource
  \/ \E n \in SeqNames : CreateFile(n, MaxSeqFiles)
  \/ \E n \in SeqNames, l \in SeqLines : WriteLine(n, l, MaxSeqLines)
  \/ MakeTarget
  \/ \E it \in IterArgs, f \in BOOLEAN : CallProcessShape(it, f)
  \/ \E i \in 1..Len(tasks) : TaskAssemble(i)
  \/ \E i \in 1..Len(tasks) : TaskOpen(i)
  \/ \E i \in 1..Len(tasks) : TaskWrite(i)
  \/ \E i \in 1..Len(tasks) : TaskClose(i)
  \/ \E i \in 1..Len(tasks) : Crash(i)

SpecSeq == Init /\ [][NextSeq]_vars

(***************************************************************************)
(* Cell 3 for one case: discovery, the target directory, one task an       *)
(* iteration on a pool of n_jobs workers                                   *)
(***************************************************************************)

N_JOBS == 4

MaxParFiles == 3
MaxParLines == 2

ParNames ==
  { ShardName(0, 0), ShardName(10, 0), ShardName(10, 1),
    XPrefix \o Fmt(10, IterWidth) \o MarkerSuffix }

ParLines == { <<NumField(1), NumField(2)>> }

\* line 218
Discover ==
  /\ pc = "setup"
  /\ ret' = GetIterations
  /\ IF ret'.kind = "raise"
       THEN pc' = "raised" /\ UNCHANGED iterations
       ELSE pc' = "discovered" /\ iterations' = ret'.its
  /\ UNCHANGED <<src, target, tasks, prev, ncalls, call>>

\* lines 219-221
MakeDirs ==
  /\ pc = "discovered"
  /\ target' = [target EXCEPT !.exists = TRUE]
  /\ pc' = "dispatch"
  /\ UNCHANGED <<src, ret, iterations, tasks, prev, ncalls, call>>

Running == {i \in 1..Len(tasks) : ~Terminal(tasks[i])}

Failed == {i \in 1..Len(tasks) : tasks[i].pc = "raised"}

\* line 222: the pool takes the next iteration when a worker is free
Dispatch ==
  /\ pc = "dispatch"
  /\ Len(tasks) < Len(iterations)
  /\ Cardinality(Running) < N_JOBS
  /\ Failed = {}
  /\ tasks' = Append(tasks, NewTask(iterations[Len(tasks) + 1], TRUE))
  /\ UNCHANGED <<src, target, pc, ret, iterations, prev, ncalls, call>>

\* line 222: Parallel(...) returns when every task has, or raises what a
\* task raised
Join ==
  /\ pc = "dispatch"
  /\ Running = {}
  /\ Len(tasks) = Len(iterations) \/ Failed # {}
  /\ pc' = IF Failed # {} THEN "raised" ELSE "joined"
  /\ UNCHANGED <<src, target, ret, iterations, tasks, prev, ncalls, call>>

Next ==
  \/ CreateSource
  \/ \E n \in ParNames : CreateFile(n, MaxParFiles)
  \/ \E n \in ParNames, l \in ParLines : WriteLine(n, l, MaxParLines)
  \/ Discover
  \/ MakeDirs
  \/ Dispatch
  \/ \E i \in 1..Len(tasks) : TaskAssemble(i)
  \/ \E i \in 1..Len(tasks) : TaskOpen(i)
  \/ \E i \in 1..Len(tasks) : TaskWrite(i)
  \/ \E i \in 1..Len(tasks) : TaskClose(i)
  \/ Join

Spec == Init /\ [][Next]_vars

(***************************************************************************)
(* Claims about get_iterations (under SpecDisc)                            *)
(***************************************************************************)

\* C2: for every set of files, the list get_iterations returns is strictly
\* ascending (sorted, no duplicates) and its elements are exactly the
\* iterations that have a process-0 shard
C2_DiscoveryExact ==
  (pc = "called" /\ ret.kind = "iterations") =>
    /\ StrictlyAscending(ret.its)
    /\ Elements(ret.its) = MarkedIterations

\* C3: a name that does not match points_<iteration>_n<process>.txt never
\* makes get_iterations raise and never contributes an iteration number
C3_ForeignNamesIgnored ==
  pc = "called" =>
    /\ ret.kind # "raise"
    /\ \A i \in 1..Len(ret.its) :
         \E n \in GlobMarkers : IsShardName(n) /\ IntOf(IterField(n)) = ret.its[i]

(***************************************************************************)
(* Claims about assemble_shape (under SpecAsm)                             *)
(***************************************************************************)

\* a set of integers as an ascending list
RECURSIVE Ascending(_)
Ascending(S) ==
  IF S = {} THEN <<>>
  ELSE LET m == CHOOSE x \in S : \A y \in S : x <= y
       IN  <<m>> \o Ascending(S \ {m})

\* the processes that wrote a shard for iteration it
ProcsOf(it) == {p \in ProcUniverse : ShardName(it, p) \in SrcNames}

\* a line with exactly one number for each coordinate of the schema
WellFormed(line, shape_2D) ==
  /\ Len(line) = Len(Columns(shape_2D))
  /\ \A j \in 1..Len(line) : line[j].kind = "num"

RowOf(line) == [j \in 1..Len(line) |-> Num(line[j].val)]

\* the rows one shard gives: its well-formed lines, in the order of the file
RECURSIVE ShardRows(_, _)
ShardRows(lines, shape_2D) ==
  IF lines = <<>> THEN <<>>
  ELSE (IF WellFormed(Head(lines), shape_2D) THEN <<RowOf(Head(lines))>> ELSE <<>>)
         \o ShardRows(Tail(lines), shape_2D)

\* the shards of iteration it by ascending process number, row after row
RECURSIVE RowsInProcessOrder(_, _, _)
RowsInProcessOrder(it, procs, shape_2D) ==
  IF procs = <<>> THEN <<>>
  ELSE ShardRows(src.files[ShardName(it, Head(procs))], shape_2D)
         \o RowsInProcessOrder(it, Tail(procs), shape_2D)

\* the rows read from one shard that the cleaning keeps, in the order read
RowsRead(lines, shape_2D) == DropNa(ReadCsv(lines, Columns(shape_2D)).rows)

RECURSIVE ReadInProcessOrder(_, _, _)
ReadInProcessOrder(it, procs, shape_2D) ==
  IF procs = <<>> THEN <<>>
  ELSE RowsRead(src.files[ShardName(it, Head(procs))], shape_2D)
         \o ReadInProcessOrder(it, Tail(procs), shape_2D)

ExpectedRows == RowsInProcessOrder(call.it, Ascending(ProcsOf(call.it)), call.shape_2D)

AllLines(it) == UNION {Elements(src.files[n]) : n \in GlobShards(it)}

\* every line of the iteration's shards is blank or well-formed
CleanInput == \A l \in AllLines(call.it) : IsBlank(l) \/ WellFormed(l, call.shape_2D)

\* C4: the returned table is the concatenation of the iteration's shards in
\* ascending process-number order, the rows of each shard in the order read
C4_RowOrder ==
  (pc = "called" /\ ret.kind = "table") =>
    ret.rows = ReadInProcessOrder(call.it, Ascending(ProcsOf(call.it)), call.shape_2D)

C4_Witness ==
  /\ pc = "called" /\ ret.kind = "table" /\ CleanInput
  /\ call.it = 10 /\ call.shape_2D
  /\ ProcsOf(10) = {2, 10}
  /\ Len(ShardRows(src.files[ShardName(10, 2)], TRUE)) = 1
  /\ Len(ShardRows(src.files[ShardName(10, 10)], TRUE)) = 2
  /\ ret.rows[2] # ret.rows[3] /\ ret.rows[1] # ret.rows[2]

NonBlankCount(lines) == Len(SelectSeq(lines, LAMBDA l : ~IsBlank(l)))

RECURSIVE SumNonBlank(_)
SumNonBlank(S) ==
  IF S = {} THEN 0
  ELSE LET n == CHOOSE x \in S : TRUE
       IN  NonBlankCount(src.files[n]) + SumNonBlank(S \ {n})

\* C5: shards made of blank and well-formed lines only give exactly as many
\* rows as they have non-blank lines, wherever the blank lines are
C5_BlankLineNeutral ==
  (pc = "called" /\ GlobShards(call.it) # {} /\ CleanInput) =>
    /\ ret.kind = "table"
    /\ Len(ret.rows) = SumNonBlank(GlobShards(call.it))

C5_Witness ==
  /\ pc = "called" /\ ret.kind = "table" /\ CleanInput
  /\ Len(ret.rows) = 1
  /\ \E n \in GlobShards(call.it) :
       /\ Len(src.files[n]) = 3
       /\ IsBlank(src.files[n][1]) /\ IsBlank(src.files[n][3])

\* a line that is malformed only by a missing or a non-numeric field
Malformed(line, shape_2D) ==
  /\ ~IsBlank(line)
  /\ ~WellFormed(line, shape_2D)
  /\ Len(line) <= Len(Columns(shape_2D))

\* C6: a line with a missing or non-numeric field never makes assemble_shape
\* raise; exactly that row is dropped and every well-formed row is returned
C6_MalformedRowDropped ==
  ( /\ pc = "called"
    /\ GlobShards(call.it) # {}
    /\ \A l \in AllLines(call.it) :
         IsBlank(l) \/ WellFormed(l, call.shape_2D) \/ Malformed(l, call.shape_2D) )
  => (ret.kind = "table" /\ ret.rows = ExpectedRows)

\* C7: the table has exactly the columns of the schema, and no row holds a
\* field of its line in another column than the field's own
C7_NoColumnShift ==
  (pc = "called" /\ ret.kind = "table") =>
    /\ ret.columns = (IF call.shape_2D THEN <<"px", "py">> ELSE <<"px", "py", "pz">>)
    /\ \A i \in 1..Len(ret.rows) :
         \E l \in AllLines(call.it) :
           \A j \in 1..Len(ret.columns) :
             j <= Len(l) /\ l[j].kind = "num" /\ ret.rows[i][j] = Num(l[j].val)

(***************************************************************************)
(* Claims about process_shape (under SpecSeq)                              *)
(***************************************************************************)

EmptyTable(shape_2D) == Table(Columns(shape_2D), <<>>)

\* C1: for an iteration with no matching shard file (also when the source
\* directory is missing) the call raises nothing, and process_shape leaves
\* the valid empty artifact plic_<iteration> in the target
C1_EmptyInputNoError ==
  \A i \in 1..Len(tasks) :
    (GlobShards(tasks[i].it) = {} /\ target.exists) =>
      /\ tasks[i].pc # "raised"
      /\ tasks[i].pc = "done" =>
           Existing(FileName(tasks[i].it)) = Pickle(EmptyTable(tasks[i].flag))

\* C9: a second run of process_shape with the same arguments leaves the
\* target directory as the first run left it
C9_Idempotent ==
  \A i \in 1..Len(tasks) :
    (tasks[i].pc = "done" /\ prev.set /\ prev.runs >= 2
       /\ prev.it = tasks[i].it /\ prev.flag = tasks[i].flag)
    => target.files = prev.after

C9_Witness ==
  /\ tasks # <<>> /\ tasks[1].pc = "done"
  /\ prev.set /\ prev.runs >= 2
  /\ Len(Existing(FileName(tasks[1].it))) >= 3

\* the complete artifacts a run of process_shape can leave under name n
CompleteArtifacts(n) ==
  LET runs == {x \in IterArgs \X BOOLEAN :
                 FileName(x[1]) = n /\ Assemble(x[1], x[2]).kind = "table"}
  IN  {Pickle(Assemble(x[1], x[2])) : x \in runs}

\* C10 as stated: the path of an artifact holds no file or a complete
\* artifact, in every state
C10_AtomicWrite ==
  \A n \in DOMAIN target.files : target.files[n] \in CompleteArtifacts(n)

\* C10 as amended: a file under the path of an artifact that loads is a
\* complete artifact; what a run that did not finish leaves does not load
C10_PartialDetectable ==
  \A n \in DOMAIN target.files :
    Loadable(target.files[n]) => target.files[n] \in CompleteArtifacts(n)

C10_Witness ==
  /\ tasks # <<>> /\ tasks[1].pc = "crashed"
  /\ tasks[1].k >= 2 /\ tasks[1].k < Len(tasks[1].data)
  /\ ~Loadable(Existing(FileName(tasks[1].it)))
  /\ prev.set /\ prev.it = tasks[1].it

(***************************************************************************)
(* Claim about the parallel loop (under Spec)                              *)
(***************************************************************************)

\* C8: no two tasks share a shard file or an output file, and once all
\* tasks have completed the target holds, for each discovered iteration,
\* the artifact of the table assembled for that iteration alone
C8_TasksIndependent ==
  /\ \A i, j \in 1..Len(tasks) :
       i # j => /\ FileName(tasks[i].it) # FileName(tasks[j].it)
                /\ GlobShards(tasks[i].it) \cap GlobShards(tasks[j].it) = {}
  /\ pc = "joined" =>
       target.files = [n \in {FileName(it) : it \in Elements(iterations)} |->
                         Pickle(Assemble(CHOOSE it \in Elements(iterations) :
                                           FileName(it) = n, TRUE))]

====
